---- MODULE Spec2Model ----
(***************************************************************************)
(* Model of tools/sfidenum.py: the Salesforce ID decode/enumeration tool.  *)
(*                                                                         *)
(* Strings are sequences of one-character strings.  Python's None and an   *)
(* optional argument that was not given are the empty sequence; a given    *)
(* integer argument n is <<n>>.                                            *)
(*                                                                         *)
(* TLC integers are 32 bits wide and 62^8 does not fit, so the record      *)
(* counter is CounterLen base-62 digits wide (8 in the source) and the     *)
(* prefix takes the remaining characters of the 15-character ID (7 in the  *)
(* source).  IDs keep their 15 and 18 characters.                          *)
(***************************************************************************)
EXTENDS Integers, Sequences, FiniteSets, TLC

VARIABLES
    args,          \* parsed command line: id, mode, start, seq, threads, displayonly, to18
    pc,            \* position of main()
    rc,            \* main's return value, None while running
    current_value, \* decoded counter of the input ID
    prefix7,       \* prefix of the input ID
    values,        \* list(gen_value_sequence(start_value, seq))
    idx,           \* sequential loops: number of values handled so far
    done,          \* parallel: indices of futures whose make_id call has finished
    yielded,       \* parallel: indices already taken from as_completed
    stdout,        \* lines printed to stdout
    q,             \* queue.Queue(maxsize=10000) between main and writer
    wpc,           \* position of the writer thread
    writer_error,  \* writer_error["exc"] is not None
    fileOpened,    \* open(outfile, "w") succeeded: file created/truncated
    file,          \* lines written to the output file
    taken,         \* number of lines the writer has taken from q
    fin,           \* input of the pure-function specifications
    fout           \* result of the pure-function specifications

vars == << args, pc, rc, current_value, prefix7, values, idx, done, yielded,
           stdout, q, wpc, writer_error, fileOpened, file, taken, fin, fout >>

-----------------------------------------------------------------------------
(* Bounds *)

CounterLen == 2      \* digits of the record counter (8 in the source)
MaxSeq == 4          \* largest |--seq| explored
MaxThreads == 2      \* largest --threads explored
QueueCap == 1        \* capacity of the hand-off queue (10000 in the source)

-----------------------------------------------------------------------------
(* Base62 *)

None == << >>

ALPHABET ==
   << "0", "1", "2", "3", "4", "5", "6", "7", "8", "9", "A", "B", "C", "D", "E", "F",
      "G", "H", "I", "J", "K", "L", "M", "N", "O", "P", "Q", "R", "S", "T", "U", "V",
      "W", "X", "Y", "Z", "a", "b", "c", "d", "e", "f", "g", "h", "i", "j", "k", "l",
      "m", "n", "o", "p", "q", "r", "s", "t", "u", "v", "w", "x", "y", "z" >>

BASE == Len(ALPHABET)

RECURSIVE Pow(_, _)
Pow(b, e) == IF e = 0 THEN 1 ELSE b * Pow(b, e - 1)

MAX_BASE62_8 == Pow(BASE, CounterLen) - 1

IdLen == 15
PrefixLen == IdLen - CounterLen

\* a raised ValueError, as a result no string can equal
ValueError == << "ValueError" >>
\* base62_to_int's results are non-negative; a raised ValueError is -1
ValueErrorInt == -1

Reverse(s) == [i \in 1..Len(s) |-> s[Len(s) + 1 - i]]

\* ALPHABET.find(ch): 0-based index, -1 when absent
Find(ch) ==
    IF \E i \in 1..Len(ALPHABET) : ALPHABET[i] = ch
    THEN (CHOOSE i \in 1..Len(ALPHABET) : ALPHABET[i] = ch) - 1
    ELSE -1

\* the while loop of int_to_base62: remainders appended least significant first
RECURSIVE DivmodChars(_)
DivmodChars(n) ==
    IF n > 0 THEN << ALPHABET[(n % BASE) + 1] >> \o DivmodChars(n \div BASE)
    ELSE << >>

Zeros(k) == [i \in 1..k |-> "0"]

int_to_base62_noreverse(n, min_len) ==
    IF n < 0 THEN ValueError
    ELSE LET s == IF n = 0 THEN << "0" >> ELSE DivmodChars(n)
         IN  IF Len(s) < min_len THEN Zeros(min_len - Len(s)) \o s ELSE s

int_to_base62(n, min_len) ==
    IF n < 0 THEN ValueError
    ELSE LET s == IF n = 0 THEN << "0" >> ELSE Reverse(DivmodChars(n))
         IN  IF Len(s) < min_len THEN Zeros(min_len - Len(s)) \o s ELSE s

RECURSIVE Base62Fold(_, _, _)
Base62Fold(s, k, n) ==
    IF k > Len(s) THEN n
    ELSE LET i == Find(s[k])
         IN  IF i = -1 THEN ValueErrorInt
             ELSE Base62Fold(s, k + 1, n * BASE + i)

base62_to_int(s) == Base62Fold(s, 1, 0)

-----------------------------------------------------------------------------
(* 15 -> 18 checksum *)

_MAPPING ==
   << "A", "B", "C", "D", "E", "F", "G", "H", "I", "J", "K", "L", "M", "N", "O", "P",
      "Q", "R", "S", "T", "U", "V", "W", "X", "Y", "Z", "0", "1", "2", "3", "4", "5" >>

\* str.isupper() of one character
IsUpper(c) == \E i \in 11..36 : ALPHABET[i] = c

\* int(bits, 2)
RECURSIVE BinFold(_, _, _)
BinFold(bits, k, n) ==
    IF k > Len(bits) THEN n
    ELSE BinFold(bits, k + 1, 2 * n + (IF bits[k] = "1" THEN 1 ELSE 0))

SegmentBits(seg) == [i \in 1..Len(seg) |-> IF IsUpper(seg[i]) THEN "1" ELSE "0"]

SuffixChar(seg) == _MAPPING[BinFold(SegmentBits(seg), 1, 0) + 1]

id15_to_18_noreverse(id15) ==
    IF Len(id15) # 15 THEN ValueError
    ELSE LET segments == [k \in 1..3 |-> SubSeq(id15, 5 * (k - 1) + 1, 5 * k)]
         IN  id15 \o [k \in 1..3 |-> SuffixChar(segments[k])]

id15_to_18(id15) ==
    IF Len(id15) # 15 THEN ValueError
    ELSE LET segments == [k \in 1..3 |-> SubSeq(id15, 5 * (k - 1) + 1, 5 * k)]
             reversed_segments == [k \in 1..3 |-> Reverse(segments[k])]
         IN  id15 \o [k \in 1..3 |-> SuffixChar(reversed_segments[k])]

-----------------------------------------------------------------------------
(* ID handling *)

Digits == { ALPHABET[i] : i \in 1..10 }
Letters == { ALPHABET[i] : i \in 11..62 }
\* a letter outside ASCII: str.isalnum() accepts it, ALPHABET does not hold it
NonAsciiLetter == "U+00E9"
Space == " "

\* str.isalnum() of one character
IsAlnumChar(c) == c \in Digits \cup Letters \cup {NonAsciiLetter}

\* str.isalnum(): every character alphanumeric and at least one character
IsAlnum(s) == Len(s) > 0 /\ \A i \in 1..Len(s) : IsAlnumChar(s[i])

\* str.strip(): leading and trailing whitespace removed
RECURSIVE LStrip(_)
LStrip(s) == IF Len(s) > 0 /\ s[1] = Space THEN LStrip(Tail(s)) ELSE s

Strip(s) == Reverse(LStrip(Reverse(LStrip(s))))

normalize_to_15_nocheck(sfid) ==
    IF Len(sfid) = 0 THEN ValueError
    ELSE LET t == Strip(sfid)
         IN  IF Len(t) = 18 THEN SubSeq(t, 1, 15)
             ELSE IF Len(t) = 15 THEN t
             ELSE ValueError

normalize_to_15(sfid) ==
    IF Len(sfid) = 0 THEN ValueError
    ELSE LET t == Strip(sfid)
             core == IF Len(t) = 18 THEN SubSeq(t, 1, 15)
                     ELSE IF Len(t) = 15 THEN t
                     ELSE ValueError
         IN  IF core = ValueError THEN ValueError
             ELSE IF ~IsAlnum(core) THEN ValueError
             ELSE core

\* (prefix7, counter8)
split_id_components(id15) ==
    IF Len(id15) # IdLen THEN ValueError
    ELSE << SubSeq(id15, 1, PrefixLen), SubSeq(id15, PrefixLen + 1, IdLen) >>

Min(a, b) == IF a < b THEN a ELSE b
Max(a, b) == IF a > b THEN a ELSE b

clamp_record_value(v) == Max(0, Min(MAX_BASE62_8, v))

\* the id_out component of make_id's result
make_id(prefix, value, to18) ==
    LET v == clamp_record_value(value)
        b62 == int_to_base62(v, CounterLen)
        id15 == prefix \o b62
    IN  IF to18 THEN id15_to_18(id15) ELSE id15

-----------------------------------------------------------------------------
(* Sequence generation *)

Abs(n) == IF n < 0 THEN -n ELSE n

\* the while loop of gen_value_sequence, from (current, produced)
RECURSIVE GenLoop(_, _, _, _)
GenLoop(current, produced, count, step) ==
    IF produced < count
    THEN IF 0 <= current /\ current <= MAX_BASE62_8
         THEN << current >> \o GenLoop(current + step, produced + 1, count, step)
         ELSE << >>
    ELSE << >>

\* the loop skipping an out-of-range value instead of stopping at it
RECURSIVE GenLoopSkip(_, _, _, _)
GenLoopSkip(current, produced, count, step) ==
    IF produced < count
    THEN (IF 0 <= current /\ current <= MAX_BASE62_8 THEN << current >> ELSE << >>)
         \o GenLoopSkip(current + step, produced + 1, count, step)
    ELSE << >>

gen_value_sequence_skip(start_value, seq) ==
    IF seq = 0 THEN << >>
    ELSE GenLoopSkip(start_value, 0, Abs(seq), IF seq > 0 THEN 1 ELSE -1)

gen_value_sequence(start_value, seq) ==
    IF seq = 0 THEN << >>
    ELSE GenLoop(start_value, 0, Abs(seq), IF seq > 0 THEN 1 ELSE -1)

-----------------------------------------------------------------------------
(* Specifications of the pure functions: Init draws the input, the actions *)
(* apply the function.  The variables of the run are not used.             *)

runVars == << args, pc, rc, current_value, prefix7, values, idx, done, yielded,
              stdout, q, wpc, writer_error, fileOpened, file, taken >>

NoRun ==
    /\ args = None /\ pc = "none" /\ rc = None /\ current_value = 0
    /\ prefix7 = None /\ values = << >> /\ idx = 0 /\ done = {} /\ yielded = {}
    /\ stdout = << >> /\ q = << >> /\ wpc = "none" /\ writer_error = FALSE
    /\ fileOpened = FALSE /\ file = << >> /\ taken = 0

(* int_to_base62 followed by base62_to_int *)

CodecInit ==
    /\ NoRun
    /\ fin \in 0..MAX_BASE62_8
    /\ fout = [stage |-> 0, enc |-> << >>, dec |-> 0]

CodecEncode ==
    /\ fout.stage = 0
    /\ fout' = [stage |-> 1, enc |-> int_to_base62(fin, CounterLen), dec |-> 0]
    /\ UNCHANGED << runVars, fin >>

CodecDecode ==
    /\ fout.stage = 1
    /\ fout' = [fout EXCEPT !.stage = 2, !.dec = base62_to_int(fout.enc)]
    /\ UNCHANGED << runVars, fin >>

CodecNext == CodecEncode \/ CodecDecode

SpecCodec == CodecInit /\ [][CodecNext]_vars

(* gen_value_sequence *)

GenMaxSeq == 10      \* largest |seq| given to gen_value_sequence alone

GenStarts ==
    (-2..(GenMaxSeq + 2)) \cup {100}
        \cup ((MAX_BASE62_8 - GenMaxSeq - 1)..(MAX_BASE62_8 + 2))

GenInit ==
    /\ NoRun
    /\ fin \in [start : GenStarts, seq : (-GenMaxSeq)..GenMaxSeq]
    /\ fout = None

GenApply ==
    /\ fout = None
    /\ fout' = << gen_value_sequence(fin.start, fin.seq) >>
    /\ UNCHANGED << runVars, fin >>

GenNext == GenApply

SpecGen == GenInit /\ [][GenNext]_vars

(* id15_to_18 *)

KnownId15 == << "0","0","1","V","c","0","0","0","0","0","P","H","o","N","1" >>
KnownId18 == KnownId15 \o << "I","A","L" >>

UpperPool == << "A","Z","Q","V","B","M","X","C","P","H","K","N","D","Y","R" >>
OtherPool == << "a","0","z","9","c","5","q","1","k","7","o","3","x","f","8" >>

SuffixInputs ==
    { [i \in 1..15 |-> IF p[i] THEN UpperPool[i] ELSE OtherPool[i]] :
          p \in [1..15 -> BOOLEAN] } \cup {KnownId15}

SuffixInit ==
    /\ NoRun
    /\ fin \in SuffixInputs
    /\ fout = None

SuffixApply ==
    /\ fout = None
    /\ fout' = << id15_to_18(fin) >>
    /\ UNCHANGED << runVars, fin >>

SuffixNext == SuffixApply

SpecSuffix == SuffixInit /\ [][SuffixNext]_vars

-----------------------------------------------------------------------------
(* C8: for every n in [0, MAX_BASE62_8], int_to_base62(n, CounterLen) has  *)
(* exactly CounterLen characters, all of them of ALPHABET, and             *)
(* base62_to_int of it is n again.                                         *)
C8_RoundTrip ==
    /\ fout.stage >= 1 =>
          /\ Len(fout.enc) = CounterLen
          /\ \A i \in 1..Len(fout.enc) : Find(fout.enc[i]) # -1
    /\ fout.stage = 2 => fout.dec = fin

C8_Witness == fout.stage = 2 /\ fin = MAX_BASE62_8 - 1 /\ fout.dec = fin

-----------------------------------------------------------------------------
(* C5: gen_value_sequence(start, seq) is the first k terms of start,       *)
(* start+step, ... with step = +1 if seq > 0 else -1 and k the smaller of  *)
(* |seq| and the number of leading terms inside [0, MAX_BASE62_8]; every   *)
(* value is in range, neighbours differ by step, seq = 0 gives nothing.    *)
GenStep(seq) == IF seq > 0 THEN 1 ELSE -1

\* number of leading terms of the progression that lie in range
GenLeading(start, seq) ==
    IF start < 0 \/ start > MAX_BASE62_8 THEN 0
    ELSE IF seq > 0 THEN MAX_BASE62_8 - start + 1
    ELSE start + 1

GenExpected(start, seq) ==
    [i \in 1..Min(Abs(seq), GenLeading(start, seq)) |-> start + (i - 1) * GenStep(seq)]

C5_GenSequence ==
    fout # None =>
        LET out == fout[1] IN
        /\ out = GenExpected(fin.start, fin.seq)
        /\ \A i \in 1..Len(out) : 0 <= out[i] /\ out[i] <= MAX_BASE62_8
        /\ \A i \in 1..(Len(out) - 1) : out[i + 1] - out[i] = GenStep(fin.seq)
        /\ fin.seq = 0 => out = << >>
        /\ (fin.start = MAX_BASE62_8 - 1 /\ fin.seq = 5)
              => out = << MAX_BASE62_8 - 1, MAX_BASE62_8 >>
        /\ (fin.start = 100 /\ fin.seq = -10)
              => out = << 100, 99, 98, 97, 96, 95, 94, 93, 92, 91 >>

C5_Witness ==
    /\ fout # None
    /\ fin.start = MAX_BASE62_8 - 1 /\ fin.seq = 5
    /\ Len(fout[1]) = 2

-----------------------------------------------------------------------------
(* C9: id15_to_18 of a 15-character alphanumeric ID is the ID followed by  *)
(* 3 characters of A-Z0-5; suffix character k (k = 0,1,2) is the entry of  *)
(* the table at index sum over j in 0..4 of 2^j * [character 5k+j is an    *)
(* uppercase letter]; id15_to_18("001Vc00000PHoN1") = "001Vc00000PHoN1IAL".*)
UpperBit(c) == IF IsUpper(c) THEN 1 ELSE 0

SegmentIndex(s, k) ==
    UpperBit(s[5 * k + 1]) + 2 * UpperBit(s[5 * k + 2]) + 4 * UpperBit(s[5 * k + 3])
        + 8 * UpperBit(s[5 * k + 4]) + 16 * UpperBit(s[5 * k + 5])

C9_Checksum ==
    fout # None =>
        LET out == fout[1] IN
        /\ Len(out) = 18
        /\ SubSeq(out, 1, 15) = fin
        /\ \A k \in 0..2 :
              /\ \E m \in 1..32 : _MAPPING[m] = out[16 + k]
              /\ out[16 + k] = _MAPPING[SegmentIndex(fin, k) + 1]
        /\ fin = KnownId15 => out = KnownId18

C9_Witness == fout # None /\ fin = KnownId15 /\ fout[1] = KnownId18

-----------------------------------------------------------------------------
(* The run of main(): state after argument parsing *)

Str15Zero == << "0","0","1","V","c","0","0","0","0","0","0","0","0","0","0" >>
Str15Max  == << "0","0","1","V","c","0","0","0","0","0","z","z","z","z","z" >>

IdPool ==
    { Str15Zero,                                   \* 15 characters, counter 0
      \* 18 characters padded with blanks, counter MAX_BASE62_8
      << Space >> \o id15_to_18(Str15Max) \o << Space >>,
      KnownId15 \o << "!","!","!" >>,              \* 18 characters, suffix not alphanumeric
      SubSeq(KnownId15, 1, 14),                    \* 14 characters
      << "0","0","-" >> \o SubSeq(KnownId15, 4, 15),    \* not alphanumeric
      SubSeq(KnownId15, 1, 14) \o << NonAsciiLetter >>,  \* alphanumeric, not base 62
      << >> }                                      \* empty

Modes == { "decode", "enum-from-value", "enum-from-current" }

StartPool == { None, << -1 >>, << 0 >>, << MAX_BASE62_8 >>, << MAX_BASE62_8 + 1 >> }

SeqPool == { None } \cup { << n >> : n \in (-MaxSeq)..MaxSeq }

StaleLine == << "s","t","a","l","e","\n" >>

Init ==
    /\ args \in [ id : IdPool, mode : Modes, start : StartPool, seq : SeqPool,
                  threads : { 1, MaxThreads }, displayonly : BOOLEAN, to18 : BOOLEAN ]
    /\ pc = "normalize"
    /\ rc = None
    /\ current_value = 0
    /\ prefix7 = None
    /\ values = << >>
    /\ idx = 0
    /\ done = {}
    /\ yielded = {}
    /\ stdout = << >>
    /\ q = << >>
    /\ wpc = "none"
    /\ writer_error = FALSE
    /\ fileOpened = FALSE
    /\ file = << StaleLine >>   \* the output path holds an older file
    /\ taken = 0
    /\ fin = None
    /\ fout = None

\* print(x): one line on stdout
IntLine(n) == [kind |-> "int", int |-> n, text |-> << >>]
IdLine(s) == [kind |-> "id", int |-> 0, text |-> s \o << "\n" >>]

\* f"{sfid_out}\n"
FileLine(s) == s \o << "\n" >>

Return(code) == /\ rc' = << code >> /\ pc' = "done"

\* lines 271-283
ParseId ==
    /\ pc = "normalize"
    /\ LET id15 == normalize_to_15(args.id) IN
       IF id15 = ValueError
       THEN /\ Return(2)
            /\ UNCHANGED << prefix7, current_value >>
       ELSE LET parts == split_id_components(id15)
                n == base62_to_int(parts[2])
            IN  IF n = ValueErrorInt
                THEN /\ Return(2)
                     /\ UNCHANGED << prefix7, current_value >>
                ELSE /\ prefix7' = parts[1]
                     /\ current_value' = n
                     /\ pc' = "mode"
                     /\ UNCHANGED rc
    /\ UNCHANGED << args, values, idx, done, yielded, stdout, q, wpc,
                    writer_error, fileOpened, file, taken, fin, fout >>

\* lines 285-288
Decode ==
    /\ pc = "mode"
    /\ args.mode = "decode"
    /\ stdout' = Append(stdout, IntLine(current_value))
    /\ Return(0)
    /\ UNCHANGED << args, current_value, prefix7, values, idx, done, yielded, q,
                    wpc, writer_error, fileOpened, file, taken, fin, fout >>

\* --seq 0 let through
SeqAccepted_zero(seq) == seq # None
\* line 291
SeqAccepted(seq) == seq # None /\ seq[1] # 0

\* lines 290-305
CheckArgs ==
    /\ pc = "mode"
    /\ args.mode # "decode"
    /\ IF ~SeqAccepted(args.seq)
       THEN Return(2)
       ELSE IF args.mode = "enum-from-value"
            THEN IF args.start = None
                 THEN Return(2)
                 ELSE IF args.start[1] < 0 \/ args.start[1] > MAX_BASE62_8
                      THEN Return(2)
                      ELSE pc' = "generate" /\ UNCHANGED rc
            ELSE pc' = "generate" /\ UNCHANGED rc
    /\ UNCHANGED << args, current_value, prefix7, values, idx, done, yielded, stdout,
                    q, wpc, writer_error, fileOpened, file, taken, fin, fout >>

start_value == IF args.mode = "enum-from-value" THEN args.start[1] ELSE current_value

\* the test written as threads < 1
Sequential_strict == args.threads <= 0
Sequential == args.threads <= 1

\* lines 317, 319, 331, 354: the branch taken once the values exist
Dispatch_alwaysfile == "file_start"
Dispatch ==
    IF args.displayonly
    THEN (IF Sequential THEN "print_seq" ELSE "submit")
    ELSE "file_start"

\* lines 307-317, 331
BuildValues ==
    /\ pc = "generate"
    /\ LET vs == gen_value_sequence(start_value, args.seq[1]) IN
       /\ values' = vs
       /\ IF vs = << >>
          THEN Return(3)
          ELSE /\ UNCHANGED rc
               /\ pc' = Dispatch
    /\ UNCHANGED << args, current_value, prefix7, idx, done, yielded, stdout, q, wpc,
                    writer_error, fileOpened, file, taken, fin, fout >>

-----------------------------------------------------------------------------
(* Console sink, sequential: lines 319-323 *)

PrintNext ==
    /\ pc = "print_seq"
    /\ idx < Len(values)
    /\ stdout' = Append(stdout, IdLine(make_id(prefix7, values[idx + 1], args.to18)))
    /\ idx' = idx + 1
    /\ pc' = IF idx + 1 = Len(values) THEN "return" ELSE "print_seq"
    /\ UNCHANGED << args, rc, current_value, prefix7, values, done, yielded, q, wpc,
                    writer_error, fileOpened, file, taken, fin, fout >>

(* The worker pool: lines 326-327 and 361-362 *)

\* exe.submit(make_id, ...) for every value
SubmitAll ==
    /\ pc = "submit"
    /\ done' = {}
    /\ yielded' = {}
    /\ pc' = "collect"
    /\ UNCHANGED << args, rc, current_value, prefix7, values, idx, stdout, q, wpc,
                    writer_error, fileOpened, file, taken, fin, fout >>

\* work items start in submission order on max_workers threads: item i can be
\* running when fewer than max_workers unfinished items precede it
CanRun(i) ==
    /\ i \in 1..Len(values)
    /\ i \notin done
    /\ Cardinality({ j \in 1..(i - 1) : j \notin done }) < args.threads

\* a worker's make_id call returns
WorkerFinish(i) ==
    /\ pc = "collect"
    /\ CanRun(i)
    /\ done' = done \cup {i}
    /\ UNCHANGED << args, pc, rc, current_value, prefix7, values, idx, yielded, stdout,
                    q, wpc, writer_error, fileOpened, file, taken, fin, fout >>

\* leaving the with block of the executor once as_completed is exhausted
AfterCollect(next) ==
    IF yielded' = 1..Len(values) THEN pc' = next ELSE pc' = "collect"

\* console sink, parallel: lines 328-330
PrintCompleted(i) ==
    /\ pc = "collect"
    /\ args.displayonly
    /\ i \in done \ yielded
    /\ yielded' = yielded \cup {i}
    /\ stdout' = Append(stdout, IdLine(make_id(prefix7, values[i], args.to18)))
    /\ AfterCollect("return")
    /\ UNCHANGED << args, rc, current_value, prefix7, values, idx, done, q, wpc,
                    writer_error, fileOpened, file, taken, fin, fout >>

\* line 375 after the console branch
ReturnOk ==
    /\ pc = "return"
    /\ Return(0)
    /\ UNCHANGED << args, current_value, prefix7, values, idx, done, yielded, stdout, q,
                    wpc, writer_error, fileOpened, file, taken, fin, fout >>

-----------------------------------------------------------------------------
(* File sink: lines 333-373 *)

\* lines 336-351: queue, writer_error, t.start()
StartWriter ==
    /\ pc = "file_start"
    /\ q' = << >>
    /\ writer_error' = FALSE
    /\ wpc' = "open"
    /\ pc' = IF Sequential THEN "put_seq" ELSE "submit"
    /\ UNCHANGED << args, rc, current_value, prefix7, values, idx, done, yielded, stdout,
                    fileOpened, file, taken, fin, fout >>

\* q.put blocks while the queue holds maxsize items
CanPut_unbounded == TRUE
CanPut == Len(q) < QueueCap

\* lines 356-358
PutNext ==
    /\ pc = "put_seq"
    /\ idx < Len(values)
    /\ CanPut
    /\ q' = Append(q, FileLine(make_id(prefix7, values[idx + 1], args.to18)))
    /\ idx' = idx + 1
    /\ pc' = IF idx + 1 = Len(values) THEN "sentinel" ELSE "put_seq"
    /\ UNCHANGED << args, rc, current_value, prefix7, values, done, yielded, stdout, wpc,
                    writer_error, fileOpened, file, taken, fin, fout >>

\* lines 363-365
ForwardCompleted(i) ==
    /\ pc = "collect"
    /\ ~args.displayonly
    /\ i \in done \ yielded
    /\ CanPut
    /\ yielded' = yielded \cup {i}
    /\ q' = Append(q, FileLine(make_id(prefix7, values[i], args.to18)))
    /\ AfterCollect("sentinel")
    /\ UNCHANGED << args, rc, current_value, prefix7, values, idx, done, stdout, wpc,
                    writer_error, fileOpened, file, taken, fin, fout >>

\* line 368
PutSentinel ==
    /\ pc = "sentinel"
    /\ CanPut
    /\ q' = Append(q, None)
    /\ pc' = "join"
    /\ UNCHANGED << args, rc, current_value, prefix7, values, idx, done, yielded, stdout,
                    wpc, writer_error, fileOpened, file, taken, fin, fout >>

\* line 369
Join ==
    /\ pc = "join"
    /\ wpc = "exit"
    /\ pc' = "check_error"
    /\ UNCHANGED << args, rc, current_value, prefix7, values, idx, done, yielded, stdout,
                    q, wpc, writer_error, fileOpened, file, taken, fin, fout >>

\* lines 371-375
CheckWriterError ==
    /\ pc = "check_error"
    /\ Return(IF writer_error THEN 4 ELSE 0)
    /\ UNCHANGED << args, current_value, prefix7, values, idx, done, yielded, stdout, q,
                    wpc, writer_error, fileOpened, file, taken, fin, fout >>

(* The writer thread: lines 339-348.  file holds the lines given to f.write *)

\* open(outfile, "w") appending to an older file instead of truncating it
OpenedFile_append == file
OpenedFile == << >>

WriterOpen ==
    /\ wpc = "open"
    /\ fileOpened' = TRUE
    /\ file' = OpenedFile
    /\ wpc' = "loop"
    /\ UNCHANGED << args, pc, rc, current_value, prefix7, values, idx, done, yielded,
                    stdout, q, writer_error, taken, fin, fout >>

\* open raises
WriterOpenFail ==
    /\ wpc = "open"
    /\ writer_error' = TRUE
    /\ wpc' = "exit"
    /\ UNCHANGED << args, pc, rc, current_value, prefix7, values, idx, done, yielded,
                    stdout, q, fileOpened, file, taken, fin, fout >>

\* q.get() of a line, f.write(line)
WriterWrite ==
    /\ wpc = "loop"
    /\ q # << >>
    /\ Head(q) # None
    /\ q' = Tail(q)
    /\ taken' = taken + 1
    /\ file' = Append(file, Head(q))
    /\ UNCHANGED << args, pc, rc, current_value, prefix7, values, idx, done, yielded,
                    stdout, wpc, writer_error, fileOpened, fin, fout >>

\* q.get() of a line, f.write(line) raises
WriterWriteFail ==
    /\ wpc = "loop"
    /\ q # << >>
    /\ Head(q) # None
    /\ q' = Tail(q)
    /\ taken' = taken + 1
    /\ writer_error' = TRUE
    /\ wpc' = "exit"
    /\ UNCHANGED << args, pc, rc, current_value, prefix7, values, idx, done, yielded,
                    stdout, fileOpened, file, fin, fout >>

\* q.get() of None: break, the file is closed
WriterBreak ==
    /\ wpc = "loop"
    /\ q # << >>
    /\ Head(q) = None
    /\ q' = Tail(q)
    /\ wpc' = "exit"
    /\ UNCHANGED << args, pc, rc, current_value, prefix7, values, idx, done, yielded,
                    stdout, writer_error, fileOpened, file, taken, fin, fout >>

-----------------------------------------------------------------------------

Next ==
    \/ ParseId
    \/ Decode
    \/ CheckArgs
    \/ BuildValues
    \/ PrintNext
    \/ SubmitAll
    \/ \E i \in 1..MaxSeq : WorkerFinish(i)
    \/ \E i \in 1..MaxSeq : PrintCompleted(i)
    \/ ReturnOk
    \/ StartWriter
    \/ PutNext
    \/ \E i \in 1..MaxSeq : ForwardCompleted(i)
    \/ PutSentinel
    \/ Join
    \/ CheckWriterError
    \/ WriterOpen
    \/ WriterOpenFail
    \/ WriterWrite
    \/ WriterWriteFail
    \/ WriterBreak

Spec == Init /\ [][Next]_vars

-----------------------------------------------------------------------------
(* Vocabulary of the claims about a run *)

RangeOf(s) == { s[i] : i \in 1..Len(s) }
Count(s, x) == Cardinality({ i \in 1..Len(s) : s[i] = x })
SameBag(s, t) == \A x \in RangeOf(s) \cup RangeOf(t) : Count(s, x) = Count(t, x)
IsPrefix(s, t) == Len(s) <= Len(t) /\ \A i \in 1..Len(s) : s[i] = t[i]

EnumMode == args.mode # "decode"
Finished == pc = "done"

\* the IDs of gen_value_sequence(start_value, seq), in generation order
GeneratedIds ==
    LET vs == gen_value_sequence(start_value, args.seq[1])
    IN  [k \in 1..Len(vs) |-> make_id(prefix7, vs[k], args.to18)]

StdoutIds == [k \in 1..Len(stdout) |-> stdout[k].text]
GeneratedLines == [k \in 1..Len(GeneratedIds) |-> GeneratedIds[k] \o << "\n" >>]

\* the output path is as it was before the run
FileUntouched == ~fileOpened /\ file = << StaleLine >>
NoIdOnStdout == \A k \in 1..Len(stdout) : stdout[k].kind # "id"

-----------------------------------------------------------------------------
-----------------------------------------------------------------------------
(* C2: without --displayonly, a run that returns 0 leaves in the output    *)
(* file exactly one line per generated value and nothing else, as a        *)
(* multiset, for any thread count and interleaving; a writer that stops    *)
(* without error has written every line enqueued before the sentinel.      *)
C2_FileComplete ==
    (EnumMode /\ ~args.displayonly) =>
        /\ rc = << 0 >> =>
              /\ fileOpened
              /\ Len(file) = Len(GeneratedLines)
              /\ SameBag(file, GeneratedLines)
        /\ (wpc = "exit" /\ ~writer_error) =>
              /\ q = << >>
              /\ taken = Len(values)
              /\ Len(file) = Len(values)

C2_Witness ==
    /\ EnumMode /\ ~args.displayonly /\ args.threads > 1
    /\ rc = << 0 >>
    /\ Len(file) = MaxSeq
    /\ file # GeneratedLines
    /\ SameBag(file, GeneratedLines)

-----------------------------------------------------------------------------
(* C3: whenever the writer has failed (open or write raised), the run     *)
(* returns 4 and never hangs: main is never left waiting in q.put on a     *)
(* full queue that no writer will drain.                                   *)
\* main is inside q.put (lines 358, 365, 368) and the queue is full
WaitingInPut ==
    /\ ~CanPut
    /\ \/ pc \in { "put_seq", "sentinel" }
       \/ pc = "collect" /\ ~args.displayonly /\ done \ yielded # {}

C3_WriterFailureExits4 ==
    writer_error =>
        /\ Finished => rc = << 4 >>
        /\ ~(wpc = "exit" /\ WaitingInPut)

-----------------------------------------------------------------------------
(* C4, as stated: an enumeration run with seq = 0 (arguments otherwise     *)
(* valid) exits with status 3, no file created, no ID line printed.        *)
IdAccepted ==
    /\ normalize_to_15(args.id) # ValueError
    /\ base62_to_int(split_id_components(normalize_to_15(args.id))[2]) # ValueErrorInt

StartAccepted ==
    args.mode = "enum-from-value" =>
        /\ args.start # None
        /\ 0 <= args.start[1] /\ args.start[1] <= MAX_BASE62_8

C4_SeqZeroExits3 ==
    (Finished /\ EnumMode /\ IdAccepted /\ StartAccepted /\ args.seq = << 0 >>) =>
        /\ rc = << 3 >>
        /\ FileUntouched
        /\ NoIdOnStdout

(* C4, amended: an enumeration run with seq = 0 is rejected as invalid     *)
(* input, status 2, no file created or truncated, nothing printed; the     *)
(* sequence generated for accepted arguments is never empty, so no run     *)
(* returns 3.                                                              *)
C4_SeqZeroExits2 ==
    /\ (Finished /\ EnumMode /\ IdAccepted /\ args.seq = << 0 >>) =>
          /\ rc = << 2 >>
          /\ FileUntouched
          /\ wpc = "none"
          /\ stdout = << >>
    /\ rc # << 3 >>
    /\ pc \notin { "normalize", "mode", "generate", "done" } => values # << >>

C4_Witness ==
    /\ Finished /\ EnumMode /\ IdAccepted /\ StartAccepted
    /\ args.seq = << 0 >>
    /\ ~args.displayonly
    /\ rc = << 2 >>

-----------------------------------------------------------------------------
(* C6: every validation error (ID not of 15 or 18 characters, ID not       *)
(* alphanumeric, counter character outside the base-62 alphabet, enum mode *)
(* without seq, enum-from-value without start, start out of range) makes   *)
(* the run return 2 with nothing on stdout, no writer thread and the       *)
(* output file neither created nor truncated.                              *)
StrippedId == Strip(args.id)
BadLength == Len(StrippedId) \notin { 15, 18 }
NotAlphanumeric ==
    /\ ~BadLength
    /\ \E i \in 1..15 : ~IsAlnumChar(StrippedId[i])
BadCounterChar ==
    /\ ~BadLength
    /\ \E i \in (PrefixLen + 1)..IdLen : Find(StrippedId[i]) = -1
MissingSeq == EnumMode /\ args.seq = None
MissingStart == args.mode = "enum-from-value" /\ args.start = None
StartOutOfRange ==
    /\ args.mode = "enum-from-value"
    /\ args.start # None
    /\ (args.start[1] < 0 \/ args.start[1] > MAX_BASE62_8)

ValidationError ==
    \/ BadLength
    \/ NotAlphanumeric
    \/ BadCounterChar
    \/ MissingSeq
    \/ MissingStart
    \/ StartOutOfRange

-----------------------------------------------------------------------------
(* C7: the sinks exclude each other in every state: with --displayonly the *)
(* output file is never opened, created or truncated and no writer thread  *)
(* exists; without it no ID is written to stdout; sequential or parallel.  *)
C7_SinksExclusive ==
    /\ args.displayonly => (FileUntouched /\ wpc = "none" /\ q = << >>)
    /\ ~args.displayonly => NoIdOnStdout

C7_Witness ==
    /\ args.displayonly /\ EnumMode /\ args.threads > 1
    /\ rc = << 0 >>
    /\ Len(stdout) = MaxSeq
    /\ FileUntouched

-----------------------------------------------------------------------------
(* C10, as stated: in parallel file-sink mode the number of IDs composed   *)
(* but not yet taken by the writer never exceeds the queue capacity plus   *)
(* the number of worker threads.                                           *)
Backlog == Cardinality(done) - taken

C10_BacklogBounded ==
    (EnumMode /\ ~args.displayonly /\ args.threads > 1) =>
        Backlog <= QueueCap + args.threads

(* C10, amended: the hand-off queue never holds more than its capacity,    *)
(* because the main thread, the only one that puts on the queue, blocks    *)
(* while it is full; the results handed to the queue and not yet taken by  *)
(* the writer are at most the capacity, while the workers never wait for   *)
(* the queue and the results composed but not yet taken are bounded only   *)
(* by the number of generated values.                                      *)
Forwarded == IF Sequential THEN idx ELSE Cardinality(yielded)

C10_QueueBounded ==
    (EnumMode /\ ~args.displayonly) =>
        /\ Len(q) <= QueueCap
        /\ Forwarded - taken <= QueueCap
        /\ Backlog <= Len(values)

C10_Witness ==
    /\ EnumMode /\ ~args.displayonly /\ args.threads > 1
    /\ Len(q) = QueueCap
    /\ pc = "collect"
    /\ Backlog > QueueCap
    /\ \E i \in 1..Len(values) : CanRun(i)

====
